---- MODULE Spec2Model ----
(***************************************************************************)
(* Model of the `record` command of fuskovic/audio-recorder                *)
(* (recordCmd.Run and the three AIFF chunk writers).                       *)
(*                                                                         *)
(* The main goroutine is modelled statement group by statement group: the  *)
(* setup steps, the select-loop with its three branches, and the deferred  *)
(* functions, which Go runs in LIFO order whenever Run returns.  The stdin *)
(* watcher goroutine and OS signal delivery are separate processes that    *)
(* only touch the two buffered channels.  The output file is a byte        *)
(* sequence with a cursor, so that seeks, short writes and the size-patch  *)
(* step act on real offsets.                                               *)
(***************************************************************************)
EXTENDS Integers, Sequences, FiniteSets, TLC

VARIABLES
    pc,          \* position of the main goroutine inside Run
    f,           \* the output file: [exists, open, bytes, pos]
    err,         \* Run's outer `err` variable (line 47), shared with the size-patch defer
    numSamples,  \* Run's sample counter (line 90)
    in,          \* the frame buffer (line 130)
    defers,      \* stack of deferred functions registered so far
    lib,         \* portaudio library state
    stream,      \* portaudio stream state
    done,        \* number of values buffered in the `done` channel (cap 1)
    stop,        \* number of signals buffered in the `stop` channel (cap 1)
    watcher,     \* stdin watcher goroutine: [pc, scanned]
    ticks,       \* history: capture ticks completed
    exitPath,    \* history: which branch left the recording loop
    setupFailed, \* history: the setup step that failed, or "none"
    teardown,    \* history: deferred functions run so far, in order
    failed,      \* history: the operations that returned an error
    patchLog,    \* history: the seeks and writes issued by the size-patch defer
    patchReport  \* history: what the size-patch defer logged

vars == <<pc, f, err, numSamples, in, defers, lib, stream, done, stop, watcher,
          ticks, exitPath, setupFailed, teardown, failed, patchLog, patchReport>>

----------------------------------------------------------------------------
(* Bounds of the model *)

\* capture ticks explored per session
MaxTicks == 3

\* operations that may return an error in one session
MaxFaults == 2

(* Program constants *)

\* len(in): frames per buffer
FramesPerBuffer == 64

\* capacity of the done and stop channels
ChanCap == 1

----------------------------------------------------------------------------
(* Fixed-width integers and their big-endian encoding (encoding/binary).   *)
(* A 32-bit value is handled as two 16-bit halves, so that no intermediate  *)
(* result leaves the 32-bit range.                                         *)

Word16 == 65536

\* the low and the high 16 bits of the two's complement form of x
Lo16(x) == x % Word16
Hi16(x) == (x \div Word16) % Word16

\* the signed 32-bit integer with the given halves
FromHalves(hi, lo) ==
    IF hi >= Word16 \div 2 THEN (hi - Word16) * Word16 + lo ELSE hi * Word16 + lo

\* Go's conversion int32(x): keep the low 32 bits, two's complement
Int32(x) == FromHalves(Hi16(x), Lo16(x))

\* the low 32 bits of k * n, for a small factor 0 <= k < 2^15
MulInt32(k, n) ==
    LET p == k * Lo16(n)
    IN  FromHalves((k * Hi16(n) + p \div Word16) % Word16, p % Word16)

\* the low 32 bits of a + b
AddInt32(a, b) ==
    LET s == Lo16(a) + Lo16(b)
    IN  FromHalves((Hi16(a) + Hi16(b) + s \div Word16) % Word16, s % Word16)

\* faulty variant of BE32: the bytes in little-endian order
LE32(x) == << Lo16(x) % 256, Lo16(x) \div 256, Hi16(x) % 256, Hi16(x) \div 256 >>

\* binary.BigEndian.PutUint32 of a (signed) 32-bit value
BE32(x) == << Hi16(x) \div 256, Hi16(x) % 256, Lo16(x) \div 256, Lo16(x) % 256 >>

\* binary.BigEndian.PutUint16 of a (signed) 16-bit value
BE16(x) == << Lo16(x) \div 256, Lo16(x) % 256 >>

\* the signed 32-bit big-endian integer stored at byte offset off (0-based)
ReadBE32(bytes, off) ==
    FromHalves(bytes[off + 1] * 256 + bytes[off + 2],
               bytes[off + 3] * 256 + bytes[off + 4])

RECURSIVE Flatten(_)
\* concatenation of a sequence of byte strings
Flatten(ss) == IF ss = <<>> THEN <<>> ELSE Head(ss) \o Flatten(Tail(ss))

RECURSIVE EncodeFrom(_, _)
EncodeFrom(buf, i) ==
    IF i > Len(buf) THEN <<>> ELSE BE32(buf[i]) \o EncodeFrom(buf, i + 1)

RECURSIVE EncodeLittleFrom(_, _)
EncodeLittleFrom(buf, i) ==
    IF i > Len(buf) THEN <<>> ELSE LE32(buf[i]) \o EncodeLittleFrom(buf, i + 1)

\* faulty variant of EncodeSamples: the samples in the byte order of the host
EncodeSamplesLittleEndian(buf) == EncodeLittleFrom(buf, 1)

\* binary.Write(f, binary.BigEndian, in): every sample as 4 big-endian bytes
EncodeSamples(buf) == EncodeFrom(buf, 1)

----------------------------------------------------------------------------
(* The output file, an os.File opened by os.Create: read-write, not append *)

NoFile == [exists |-> FALSE, open |-> FALSE, bytes |-> <<>>, pos |-> 0]

\* os.Create: the file exists, is truncated, cursor at 0
Created == [exists |-> TRUE, open |-> TRUE, bytes |-> <<>>, pos |-> 0]

Max(a, b) == IF a >= b THEN a ELSE b

RECURSIVE Zeros(_)
Zeros(n) == IF n <= 0 THEN <<>> ELSE <<0>> \o Zeros(n - 1)

\* data stored at the cursor: overwrites what is there, extends the file past its
\* end (a gap between the end and the cursor reads as zeros)
PutBytes(bytes, pos, data) ==
    IF data = <<>> THEN bytes
    ELSE SubSeq(bytes, 1, pos) \o Zeros(pos - Len(bytes)) \o data
         \o SubSeq(bytes, pos + Len(data) + 1, Len(bytes))

\* faulty variant of FileWrite: the file is opened with O_APPEND, every write
\* lands at the end of the file
FileWriteAppend(file, data, n) ==
    [file EXCEPT !.bytes = file.bytes \o SubSeq(data, 1, n),
                 !.pos = Len(file.bytes) + n]

\* f.Write(data) that stores the first n bytes; n = Len(data) is a successful write,
\* n < Len(data) a write that returned an error after n bytes
FileWrite(file, data, n) ==
    [file EXCEPT !.bytes = PutBytes(file.bytes, file.pos, SubSeq(data, 1, n)),
                 !.pos = file.pos + n]

\* f.Seek(off, 0): the cursor moves on success and stays on failure
FileSeek(file, off, ok) == IF ok THEN [file EXCEPT !.pos = off] ELSE file

\* the byte counts a failing write may have stored before its error
ShortCounts(len) == {0, len - 1}

RECURSIVE WriteAll(_, _, _, _)
\* the writes of one chunk function in order; write number failAt (0: none) stores
\* only n bytes and the function returns its error without issuing the later writes
WriteAll(file, writes, failAt, n) ==
    IF writes = <<>> THEN file
    ELSE IF failAt = 1 THEN FileWrite(file, Head(writes), n)
    ELSE WriteAll(FileWrite(file, Head(writes), Len(Head(writes))),
                  Tail(writes), IF failAt = 0 THEN 0 ELSE failAt - 1, n)

----------------------------------------------------------------------------
(* The three chunk headers *)

FORM == <<70, 79, 82, 77>>
AIFF == <<65, 73, 70, 70>>
COMM == <<67, 79, 77, 77>>
SSND == <<83, 83, 78, 68>>

\* 80-bit extended encoding of 44100
SampleRateBytes == <<64, 14, 172, 68, 0, 0, 0, 0, 0, 0>>

FormChunkWrites == << FORM, BE32(Int32(0)), AIFF >>

CommonChunkWrites ==
    << COMM, BE32(Int32(18)), BE16(1), BE32(Int32(0)), BE16(32), SampleRateBytes >>

SoundChunkWrites == << SSND, BE32(Int32(0)), BE32(Int32(0)), BE32(Int32(0)) >>

\* the offsets the size-patch defer seeks to
TotalBytesOffset == 4
NumSamplesOffset == 22
SoundSizeOffset == 42

----------------------------------------------------------------------------
(* Error injection: any fallible call may return an error, MaxFaults per session *)

CanFail == Cardinality(failed) < MaxFaults

\* the outcomes of one fallible call
Outcomes == {ok \in BOOLEAN : ok \/ CanFail}

Op(name, k) == <<name, k>>

\* faulty variant of Push: the function is queued behind the ones deferred before
PushBottom(ds, d) == <<d>> \o ds

\* defer statement: the function is pushed on the stack of deferred calls
Push(ds, d) == Append(ds, d)

\* faulty variant of OnSetupError: the `return` is missing and Run carries on
OnSetupErrorFallThrough(next) == next

\* `flog.Error; fl.Usage(); return` of a failing setup step: Run returns, which
\* runs the deferred functions registered so far; next is the statement after the if
OnSetupError(next) == "unwind"

\* faulty variant of OnDone: a `break` without label leaves only the select
\* statement and the loop goes on
OnDoneBreaksSelect == "poll"

\* `case <-done: break recording`: the loop is left, Run ends and its defers run
OnDone == "unwind"

\* faulty variant of OnSignal: the process is left at once, as by os.Exit, and no
\* deferred function runs
OnSignalSkipDefers == "returned"

\* `case <-stop: return`: Run returns, and a Go return runs the deferred functions
OnSignal == "unwind"

\* make([]int32, 64)
ZeroBuffer == [i \in 1..FramesPerBuffer |-> 0]

\* what a successful stream.Read leaves in the buffer.  The device plays a fixed
\* test signal: ramps whose slope changes from tick to tick, falling through
\* negative samples on odd ticks and rising through large positive ones on even
\* ticks, so that every byte position of a sample and every tick is told apart
RampSlope(t) == IF t % 2 = 1 THEN -3 * t ELSE 16909060 + t
DeviceBuffer(t) == [i \in 1..FramesPerBuffer |-> MulInt32(i, RampSlope(t))]

Init ==
    /\ pc = "create"
    /\ f = NoFile
    /\ err = "nil"
    /\ numSamples = 0
    /\ in = <<>>
    /\ defers = <<>>
    /\ lib = "uninit"
    /\ stream = "none"
    /\ done = 0
    /\ stop = 0
    /\ watcher = [pc |-> "off", scanned |-> "none"]
    /\ ticks = 0
    /\ exitPath = "none"
    /\ setupFailed = "none"
    /\ teardown = <<>>
    /\ failed = {}
    /\ patchLog = <<>>
    /\ patchReport = "none"

----------------------------------------------------------------------------
(* Setup, lines 47-168 *)

\* f, err := os.Create(cmd.outFile); defer f.Close()
CreateFile ==
    /\ pc = "create"
    /\ \E ok \in Outcomes :
        IF ok
        THEN /\ f' = Created
             /\ err' = "nil"
             /\ defers' = Push(defers, "closeFile")
             /\ pc' = "form"
             /\ UNCHANGED <<setupFailed, failed>>
        ELSE /\ err' = "error"
             /\ pc' = OnSetupError("form")
             /\ setupFailed' = "create"
             /\ failed' = failed \cup {Op("create", 0)}
             /\ UNCHANGED <<f, defers>>
    /\ UNCHANGED <<numSamples, in, lib, stream, done, stop, watcher, ticks,
                   exitPath, teardown, patchLog, patchReport>>

\* one of writeFormChunk, writeCommonChunk, writeSoundChunk, called at pc = at:
\* its writes in order, the first failing one ending the function and Run
WriteChunk(at, writes, next) ==
    /\ pc = at
    /\ \E failAt \in 0..Len(writes) :
        IF failAt = 0
        THEN /\ f' = WriteAll(f, writes, 0, 0)
             /\ pc' = next
             /\ UNCHANGED <<setupFailed, failed>>
        ELSE /\ CanFail
             /\ \E n \in ShortCounts(Len(writes[failAt])) :
                    f' = WriteAll(f, writes, failAt, n)
             /\ pc' = OnSetupError(next)
             /\ setupFailed' = at
             /\ failed' = failed \cup {Op(at, failAt)}
    /\ UNCHANGED <<err, numSamples, in, defers, lib, stream, done, stop, watcher,
                   ticks, exitPath, teardown, patchLog, patchReport>>

WriteFormChunk == WriteChunk("form", FormChunkWrites, "common")

WriteCommonChunk == WriteChunk("common", CommonChunkWrites, "sound")

WriteSoundChunk == WriteChunk("sound", SoundChunkWrites, "patchDefer")

\* faulty variant of RegisterPatch: the size-patch function is not deferred
RegisterPatchForgotten ==
    /\ pc = "patchDefer"
    /\ numSamples' = 0
    /\ pc' = "init"
    /\ UNCHANGED <<f, err, in, defers, lib, stream, done, stop, watcher, ticks,
                   exitPath, setupFailed, teardown, failed, patchLog, patchReport>>

\* numSamples := 0; defer func() { fill in missing sizes }()
RegisterPatch ==
    /\ pc = "patchDefer"
    /\ numSamples' = 0
    /\ defers' = Push(defers, "patch")
    /\ pc' = "init"
    /\ UNCHANGED <<f, err, in, lib, stream, done, stop, watcher, ticks, exitPath,
                   setupFailed, teardown, failed, patchLog, patchReport>>

\* portaudio.Initialize(); defer portaudio.Terminate()
Initialize ==
    /\ pc = "init"
    /\ \E ok \in Outcomes :
        IF ok
        THEN /\ lib' = "initialized"
             /\ defers' = Push(defers, "terminate")
             /\ pc' = "open"
             /\ UNCHANGED <<setupFailed, failed>>
        ELSE /\ pc' = OnSetupError("open")
             /\ setupFailed' = "init"
             /\ failed' = failed \cup {Op("init", 0)}
             /\ UNCHANGED <<lib, defers>>
    /\ UNCHANGED <<f, err, numSamples, in, stream, done, stop, watcher, ticks,
                   exitPath, teardown, patchLog, patchReport>>

\* in := make([]int32, 64); stream, err := portaudio.OpenDefaultStream(...);
\* defer stream.Close()
OpenStream ==
    /\ pc = "open"
    /\ in' = ZeroBuffer
    /\ \E ok \in Outcomes :
        IF ok
        THEN /\ stream' = "open"
             /\ err' = "nil"
             /\ defers' = Push(defers, "closeStream")
             /\ pc' = "start"
             /\ UNCHANGED <<setupFailed, failed>>
        ELSE /\ err' = "error"
             /\ pc' = OnSetupError("start")
             /\ setupFailed' = "open"
             /\ failed' = failed \cup {Op("open", 0)}
             /\ UNCHANGED <<stream, defers>>
    /\ UNCHANGED <<f, numSamples, lib, done, stop, watcher, ticks, exitPath,
                   teardown, patchLog, patchReport>>

\* faulty variant of StartStream: the stop channel is made and registered only
\* here, next to the done channel, so what was delivered before is gone
StartStreamMakesStop ==
    /\ pc = "start"
    /\ \E ok \in Outcomes :
        IF ok
        THEN /\ stream' = "started"
             /\ defers' = Push(defers, "stopStream")
             /\ watcher' = [watcher EXCEPT !.pc = "scan"]
             /\ stop' = 0
             /\ pc' = "poll"
             /\ UNCHANGED <<setupFailed, failed>>
        ELSE /\ pc' = OnSetupError("poll")
             /\ setupFailed' = "start"
             /\ failed' = failed \cup {Op("start", 0)}
             /\ UNCHANGED <<stream, defers, watcher, stop>>
    /\ UNCHANGED <<f, err, numSamples, in, lib, done, ticks, exitPath,
                   teardown, patchLog, patchReport>>

\* stream.Start(); defer stream.Stop(); done := make(chan bool, 1); go watcher
StartStream ==
    /\ pc = "start"
    /\ \E ok \in Outcomes :
        IF ok
        THEN /\ stream' = "started"
             /\ defers' = Push(defers, "stopStream")
             /\ watcher' = [watcher EXCEPT !.pc = "scan"]
             /\ pc' = "poll"
             /\ UNCHANGED <<setupFailed, failed>>
        ELSE /\ pc' = OnSetupError("poll")
             /\ setupFailed' = "start"
             /\ failed' = failed \cup {Op("start", 0)}
             /\ UNCHANGED <<stream, defers, watcher>>
    /\ UNCHANGED <<f, err, numSamples, in, lib, done, stop, ticks, exitPath,
                   teardown, patchLog, patchReport>>

----------------------------------------------------------------------------
(* The recording loop, lines 179-196 *)

\* case <-done: break recording
PollDone ==
    /\ pc = "poll"
    /\ done > 0
    /\ done' = done - 1
    /\ exitPath' = "done"
    /\ pc' = OnDone
    /\ UNCHANGED <<f, err, numSamples, in, defers, lib, stream, stop, watcher, ticks,
                   setupFailed, teardown, failed, patchLog, patchReport>>

\* case <-stop: return
PollStop ==
    /\ pc = "poll"
    /\ stop > 0
    /\ stop' = stop - 1
    /\ exitPath' = "signal"
    /\ pc' = OnSignal
    /\ UNCHANGED <<f, err, numSamples, in, defers, lib, stream, done, watcher, ticks,
                   setupFailed, teardown, failed, patchLog, patchReport>>

\* faulty variant of PollDefault: the tick is started without looking at the channels
PollDefaultUnguarded ==
    /\ pc = "poll"
    /\ ticks < MaxTicks
    /\ pc' = "read"
    /\ UNCHANGED <<f, err, numSamples, in, defers, lib, stream, done, stop, watcher,
                   ticks, exitPath, setupFailed, teardown, failed, patchLog,
                   patchReport>>

\* default: taken only when neither channel has a value ready
PollDefault ==
    /\ pc = "poll"
    /\ done = 0
    /\ stop = 0
    /\ ticks < MaxTicks
    /\ pc' = "read"
    /\ UNCHANGED <<f, err, numSamples, in, defers, lib, stream, done, stop, watcher,
                   ticks, exitPath, setupFailed, teardown, failed, patchLog,
                   patchReport>>

\* if err := stream.Read(); err != nil { flog.Error(...) }
ReadStream ==
    /\ pc = "read"
    /\ \E ok \in Outcomes :
        IF ok
        THEN /\ in' = DeviceBuffer(ticks + 1)
             /\ UNCHANGED failed
        ELSE /\ failed' = failed \cup {Op("read", ticks + 1)}
             /\ UNCHANGED in
    /\ pc' = "append"
    /\ UNCHANGED <<f, err, numSamples, defers, lib, stream, done, stop, watcher,
                   ticks, exitPath, setupFailed, teardown, patchLog, patchReport>>

\* if err := binary.Write(f, binary.BigEndian, in); err != nil { flog.Error(...) }
AppendSamples ==
    /\ pc = "append"
    /\ LET data == EncodeSamples(in)
       IN  \E ok \in Outcomes :
            IF ok
            THEN /\ f' = FileWrite(f, data, Len(data))
                 /\ UNCHANGED failed
            ELSE /\ \E n \in ShortCounts(Len(data)) : f' = FileWrite(f, data, n)
                 /\ failed' = failed \cup {Op("append", ticks + 1)}
    /\ pc' = "count"
    /\ UNCHANGED <<err, numSamples, in, defers, lib, stream, done, stop, watcher,
                   ticks, exitPath, setupFailed, teardown, patchLog, patchReport>>

\* faulty variant of TickIncrement: a tick whose read or append failed is not counted
TickIncrementIfStored ==
    IF Op("read", ticks + 1) \in failed \/ Op("append", ticks + 1) \in failed
    THEN 0 ELSE Len(in)

\* what numSamples += len(in) adds at the end of a tick
TickIncrement == Len(in)

\* numSamples += len(in)
CountSamples ==
    /\ pc = "count"
    /\ numSamples' = numSamples + TickIncrement
    /\ ticks' = ticks + 1
    /\ pc' = "poll"
    /\ UNCHANGED <<f, err, in, defers, lib, stream, done, stop, watcher, exitPath,
                   setupFailed, teardown, failed, patchLog, patchReport>>

----------------------------------------------------------------------------
(* The deferred functions, run when Run returns *)

\* faulty variant of DeferIndex: the deferred calls run first-in first-out
DeferIndexFIFO(ds) == 1

\* Go runs deferred calls last-in first-out: the next one is the top of the stack
DeferIndex(ds) == Len(ds)

Remove(ds, i) == SubSeq(ds, 1, i - 1) \o SubSeq(ds, i + 1, Len(ds))

\* the deferred function d is the next to run
Runs(d) ==
    /\ pc = "unwind"
    /\ defers # <<>>
    /\ defers[DeferIndex(defers)] = d

\* bookkeeping common to every deferred function
Ran(d) ==
    /\ defers' = Remove(defers, DeferIndex(defers))
    /\ teardown' = Append(teardown, d)
    /\ pc' = "unwind"

\* defer at lines 157-165: stream.Stop()
DeferStreamStop ==
    /\ Runs("stopStream")
    /\ \E ok \in Outcomes :
        /\ stream' = IF ok THEN "stopped" ELSE stream
        /\ failed' = IF ok THEN failed ELSE failed \cup {Op("stopStream", 0)}
    /\ Ran("stopStream")
    /\ UNCHANGED <<f, err, numSamples, in, lib, done, stop, watcher, ticks, exitPath,
                   setupFailed, patchLog, patchReport>>

\* defer at lines 141-149: stream.Close()
DeferStreamClose ==
    /\ Runs("closeStream")
    /\ \E ok \in Outcomes :
        /\ stream' = IF ok THEN "closed" ELSE stream
        /\ failed' = IF ok THEN failed ELSE failed \cup {Op("closeStream", 0)}
    /\ Ran("closeStream")
    /\ UNCHANGED <<f, err, numSamples, in, lib, done, stop, watcher, ticks, exitPath,
                   setupFailed, patchLog, patchReport>>

\* defer at lines 120-128: portaudio.Terminate()
DeferTerminate ==
    /\ Runs("terminate")
    /\ \E ok \in Outcomes :
        /\ lib' = IF ok THEN "terminated" ELSE lib
        /\ failed' = IF ok THEN failed ELSE failed \cup {Op("terminate", 0)}
    /\ Ran("terminate")
    /\ UNCHANGED <<f, err, numSamples, in, stream, done, stop, watcher, ticks,
                   exitPath, setupFailed, patchLog, patchReport>>

\* the three offsets of lines 98, 100, 102
PatchOffsets == <<TotalBytesOffset, NumSamplesOffset, SoundSizeOffset>>

\* the three values of lines 95, 99, 101, 103
PatchValues(n) == << MulInt32(50, n), Int32(n), AddInt32(MulInt32(4, n), 8) >>

\* faulty variant of ContinueAfter: the defer gives up at the first error
ContinueAfterAbort(ok) == ok

\* lines 98-103 store every result in err and test none of them: the next
\* statement runs whatever the previous one returned
ContinueAfter(ok) == TRUE

RECURSIVE RunPatch(_, _, _, _, _)
\* the seek/write pairs i..3 of lines 98-103 applied to file; seekOk[j] is the
\* outcome of the j-th seek and stored[j] the bytes the j-th write stored.
\* Returns the file and the log of the calls issued.
RunPatch(file, i, seekOk, stored, vals) ==
    IF i > Len(PatchOffsets) THEN [file |-> file, log |-> <<>>]
    ELSE
        LET off == PatchOffsets[i]
            f1 == FileSeek(file, off, seekOk[i])
            sk == [op |-> "seek", off |-> off, at |-> f1.pos, n |-> 0,
                   ok |-> seekOk[i]]
            f2 == FileWrite(f1, BE32(vals[i]), stored[i])
            wr == [op |-> "write", off |-> off, at |-> f1.pos, n |-> stored[i],
                   ok |-> (stored[i] = 4)]
        IN  IF ~ContinueAfter(sk.ok) THEN [file |-> f1, log |-> <<sk>>]
            ELSE IF ~ContinueAfter(wr.ok) THEN [file |-> f2, log |-> <<sk, wr>>]
            ELSE LET rest == RunPatch(f2, i + 1, seekOk, stored, vals)
                 IN  [file |-> rest.file, log |-> <<sk, wr>> \o rest.log]

\* the value of err at line 105: every call of lines 98-103 assigned it, so it
\* holds the result of the last call issued
PatchErr(log) == IF log[Len(log)].ok THEN "nil" ELSE "error"

\* defer at lines 92-110: fill in missing sizes
DeferPatch ==
    /\ Runs("patch")
    /\ \E seekOk \in [1..3 -> BOOLEAN], stored \in [1..3 -> {4} \cup ShortCounts(4)] :
        /\ Cardinality({i \in 1..3 : ~seekOk[i]})
             + Cardinality({i \in 1..3 : stored[i] # 4})
             <= MaxFaults - Cardinality(failed)
        /\ LET r == RunPatch(f, 1, seekOk, stored, PatchValues(numSamples))
           IN  /\ f' = r.file
               /\ patchLog' = r.log
               /\ err' = PatchErr(r.log)
               /\ patchReport' = IF PatchErr(r.log) # "nil" THEN "error" ELSE "success"
               /\ failed' = failed \cup
                    {Op(r.log[i].op, r.log[i].off) : i \in {j \in 1..Len(r.log) : ~r.log[j].ok}}
    /\ Ran("patch")
    /\ UNCHANGED <<numSamples, in, lib, stream, done, stop, watcher, ticks, exitPath,
                   setupFailed>>

\* defer at lines 54-62: f.Close(); the descriptor is released even when Close
\* returns an error
DeferFileClose ==
    /\ Runs("closeFile")
    /\ \E ok \in Outcomes :
        /\ f' = [f EXCEPT !.open = FALSE]
        /\ failed' = IF ok THEN failed ELSE failed \cup {Op("closeFile", 0)}
    /\ Ran("closeFile")
    /\ UNCHANGED <<err, numSamples, in, lib, stream, done, stop, watcher, ticks,
                   exitPath, setupFailed, patchLog, patchReport>>

\* no deferred function is left: Run has returned
Returned ==
    /\ pc = "unwind"
    /\ defers = <<>>
    /\ pc' = "returned"
    /\ UNCHANGED <<f, err, numSamples, in, defers, lib, stream, done, stop, watcher,
                   ticks, exitPath, setupFailed, teardown, failed, patchLog,
                   patchReport>>

----------------------------------------------------------------------------
(* The environment: OS signals and the stdin watcher goroutine *)

\* signal.Notify(stop, signals...): a signal is sent to stop without blocking,
\* and dropped when the channel is full
SignalArrives ==
    /\ pc # "returned"
    /\ stop' = IF stop < ChanCap THEN stop + 1 ELSE stop
    /\ UNCHANGED <<pc, f, err, numSamples, in, defers, lib, stream, done, watcher,
                   ticks, exitPath, setupFailed, teardown, failed, patchLog,
                   patchReport>>

\* scanner.Scan() returns true with a complete line
WatcherScanLine ==
    /\ pc # "returned"
    /\ watcher.pc = "scan"
    /\ watcher.scanned # "tail"
    /\ watcher' = [pc |-> "send", scanned |-> "lines"]
    /\ UNCHANGED <<pc, f, err, numSamples, in, defers, lib, stream, done, stop,
                   ticks, exitPath, setupFailed, teardown, failed, patchLog,
                   patchReport>>

\* scanner.Scan() returns true with the unterminated text that precedes
\* end-of-input (bufio.ScanLines yields a final non-empty line without newline)
WatcherScanTail ==
    /\ pc # "returned"
    /\ watcher.pc = "scan"
    /\ watcher.scanned # "tail"
    /\ watcher' = [pc |-> "send", scanned |-> "tail"]
    /\ UNCHANGED <<pc, f, err, numSamples, in, defers, lib, stream, done, stop,
                   ticks, exitPath, setupFailed, teardown, failed, patchLog,
                   patchReport>>

\* faulty variant of WatcherScanEOF: the goroutine reports end-of-input on done
WatcherScanEOFNotifies ==
    /\ pc # "returned"
    /\ watcher.pc = "scan"
    /\ done < ChanCap
    /\ done' = done + 1
    /\ watcher' = [watcher EXCEPT !.pc = "exit"]
    /\ UNCHANGED <<pc, f, err, numSamples, in, defers, lib, stream, stop, ticks,
                   exitPath, setupFailed, teardown, failed, patchLog, patchReport>>

\* scanner.Scan() returns false at end-of-input: the goroutine ends
WatcherScanEOF ==
    /\ pc # "returned"
    /\ watcher.pc = "scan"
    /\ watcher' = [watcher EXCEPT !.pc = "exit"]
    /\ UNCHANGED <<pc, f, err, numSamples, in, defers, lib, stream, done, stop,
                   ticks, exitPath, setupFailed, teardown, failed, patchLog,
                   patchReport>>

\* faulty variant of WatcherSend: the goroutine stops the stream itself when a
\* line arrives
WatcherSendStopsStream ==
    /\ pc # "returned"
    /\ watcher.pc = "send"
    /\ done < ChanCap
    /\ done' = done + 1
    /\ stream' = IF stream = "started" THEN "stopped" ELSE stream
    /\ watcher' = [watcher EXCEPT !.pc = "scan"]
    /\ UNCHANGED <<pc, f, err, numSamples, in, defers, lib, stop, ticks,
                   exitPath, setupFailed, teardown, failed, patchLog, patchReport>>

\* done <- true: blocks while the channel is full
WatcherSend ==
    /\ pc # "returned"
    /\ watcher.pc = "send"
    /\ done < ChanCap
    /\ done' = done + 1
    /\ watcher' = [watcher EXCEPT !.pc = "scan"]
    /\ UNCHANGED <<pc, f, err, numSamples, in, defers, lib, stream, stop, ticks,
                   exitPath, setupFailed, teardown, failed, patchLog, patchReport>>

----------------------------------------------------------------------------

MainNext ==
    \/ CreateFile
    \/ WriteFormChunk
    \/ WriteCommonChunk
    \/ WriteSoundChunk
    \/ RegisterPatch
    \/ Initialize
    \/ OpenStream
    \/ StartStream
    \/ PollDone
    \/ PollStop
    \/ PollDefault
    \/ ReadStream
    \/ AppendSamples
    \/ CountSamples
    \/ DeferStreamStop
    \/ DeferStreamClose
    \/ DeferTerminate
    \/ DeferPatch
    \/ DeferFileClose
    \/ Returned

EnvNext ==
    \/ SignalArrives
    \/ WatcherScanLine
    \/ WatcherScanTail
    \/ WatcherScanEOF
    \/ WatcherSend

Next == MainNext \/ EnvNext

Spec == Init /\ [][Next]_vars

----------------------------------------------------------------------------
(* Vocabulary of the properties *)

\* the deferred functions of a session whose setup succeeded, in the order Go runs them
FullTeardown == <<"stopStream", "closeStream", "terminate", "patch", "closeFile">>

IsPrefix(s, t) == Len(s) <= Len(t) /\ s = SubSeq(t, 1, Len(s))

\* how often the deferred function d has run
TimesRun(d) == Cardinality({i \in 1..Len(teardown) : teardown[i] = d})

\* all three header chunks were written
HeaderWritten == pc \notin {"create", "form", "common", "sound"}
                 /\ setupFailed \notin {"create", "form", "common", "sound"}

\* every seek and write of the size-patch defer succeeded
PatchClean == \A i \in 1..Len(patchLog) : patchLog[i].ok

\* the size fields as a reader of the file finds them
TotalBytesField == ReadBE32(f.bytes, TotalBytesOffset)
NumSamplesField == ReadBE32(f.bytes, NumSamplesOffset)
SoundSizeField == ReadBE32(f.bytes, SoundSizeOffset)

----------------------------------------------------------------------------
(* C1: in every session in which the three header chunks were written, the  *)
(* size-patch step runs exactly once before Run returns, whichever way Run  *)
(* is left: stop line, OS signal, or a failing device init, stream open or  *)
(* stream start.  It never runs twice.                                      *)
C1_PatchOnceOnEveryExit ==
    /\ TimesRun("patch") <= 1
    /\ (pc = "returned" /\ HeaderWritten) => TimesRun("patch") = 1
    /\ (pc = "returned" /\ ~HeaderWritten) => TimesRun("patch") = 0

\* Run has returned after a signal stopped the loop, and the patch has run
C1_Witness ==
    /\ pc = "returned"
    /\ exitPath = "signal"
    /\ ticks >= 1
    /\ TimesRun("patch") = 1

----------------------------------------------------------------------------
(* C2: after N completed ticks of 64 samples and a clean stop whose patch   *)
(* seeks and writes all succeed, the fields read back as offset 4 =         *)
(* 50*(64*N), offset 22 = 64*N, offset 42 = 4*(64*N) + 8; N = 3 gives 9600, *)
(* 192 and 776, N = 0 gives 0, 0 and 8.                                     *)
C2_PatchedFields ==
    (pc = "returned" /\ exitPath = "done" /\ PatchClean) =>
        /\ TotalBytesField = 50 * (64 * ticks)
        /\ NumSamplesField = 64 * ticks
        /\ SoundSizeField = 4 * (64 * ticks) + 8
        /\ ticks = 3 => (TotalBytesField = 9600 /\ NumSamplesField = 192
                         /\ SoundSizeField = 776)
        /\ ticks = 0 => (TotalBytesField = 0 /\ NumSamplesField = 0
                         /\ SoundSizeField = 8)

\* scenario A: three ticks, clean stop, nothing failed
C2_Witness ==
    /\ pc = "returned"
    /\ exitPath = "done"
    /\ failed = {}
    /\ ticks = 3
    /\ SoundSizeField = 776

----------------------------------------------------------------------------
(* C3 as stated: when an OS signal stops the loop, the size-patch step is   *)
(* bypassed and the fields at offsets 4, 22 and 42 keep their placeholder 0 *)
C3_SignalBypassesPatch ==
    (pc = "returned" /\ exitPath = "signal") =>
        /\ TimesRun("patch") = 0
        /\ TotalBytesField = 0
        /\ NumSamplesField = 0
        /\ SoundSizeField = 0

(* C3 amended: when an OS signal stops the loop, Run returns without        *)
(* another capture tick, and its return runs the same deferred functions as *)
(* a clean stop: the size-patch step runs once and, when its seeks and      *)
(* writes succeed, the fields hold 50*n, n and 4*n + 8 for n = numSamples.  *)
C3_SignalStillPatches ==
    exitPath = "signal" =>
        /\ pc \in {"unwind", "returned"}
        /\ numSamples = 64 * ticks
        /\ IsPrefix(teardown, FullTeardown)
        /\ pc = "returned" =>
            /\ teardown = FullTeardown
            /\ PatchClean =>
                /\ TotalBytesField = 50 * numSamples
                /\ NumSamplesField = numSamples
                /\ SoundSizeField = 4 * numSamples + 8

\* a signal stopped the loop after two ticks and the fields were patched
C3_Witness ==
    /\ pc = "returned"
    /\ exitPath = "signal"
    /\ failed = {}
    /\ ticks = 2
    /\ TotalBytesField = 6400
    /\ NumSamplesField = 128
    /\ SoundSizeField = 520

----------------------------------------------------------------------------
(* C4: after a clean stop the teardown steps run in the order stream stop,  *)
(* stream close, terminate, size-patch, file close, each at most once, and  *)
(* all of them have run when Run returns.                                   *)
C4_TeardownOrder ==
    exitPath = "done" =>
        /\ IsPrefix(teardown, FullTeardown)
        /\ pc = "returned" => teardown = FullTeardown

\* a clean stop whose teardown is complete
C4_Witness ==
    /\ exitPath = "done"
    /\ pc = "returned"
    /\ teardown = FullTeardown

----------------------------------------------------------------------------
\* the size placeholders the header writes have stored completely
PlaceholdersWritten == {o \in {TotalBytesOffset, NumSamplesOffset, SoundSizeOffset} :
                            Len(f.bytes) >= o + 4}

\* how often the size-patch defer has stored a complete value at offset o
PatchedTimes(o) ==
    Cardinality({i \in 1..Len(patchLog) :
                    patchLog[i].op = "write" /\ patchLog[i].at = o /\ patchLog[i].ok})

(* C5: when the output file is closed, every size placeholder written to it *)
(* (offset 4, 22, 42) has been patched exactly once, on every path to the   *)
(* close, the early returns after a failing chunk write included.           *)
C5_PlaceholdersPatchedAtClose ==
    (f.exists /\ ~f.open) => \A o \in PlaceholdersWritten : PatchedTimes(o) = 1

----------------------------------------------------------------------------
\* the positions of the main goroutine inside the recording loop
LoopPcs == {"poll", "read", "append", "count"}

(* C6: a failed device read or sample append never ends the capture loop    *)
(* and the tick is still counted: numSamples is 64 times the number of      *)
(* completed ticks whatever failed in them, and it never decreases.         *)
C6_FailedTicksStillCount ==
    /\ [](numSamples = 64 * ticks)
    /\ [][/\ numSamples' >= numSamples
          /\ pc \in {"read", "append", "count"} => pc' \in LoopPcs]_vars

\* scenario B: the read of tick 2 of 3 failed and 192 samples were counted
C6_Witness ==
    /\ pc = "returned"
    /\ ticks = 3
    /\ Op("read", 2) \in failed
    /\ numSamples = 192

----------------------------------------------------------------------------
(* C7: when a setup step fails (file creation, a header chunk write, device *)
(* init, stream open, stream start) the capture loop is never entered: no   *)
(* device read, no sample append, numSamples stays 0; and what was acquired *)
(* before is released by its teardown step: the file is closed if created,  *)
(* the library terminated if initialized, the stream closed if opened.      *)
C7_SetupFailureReleases ==
    setupFailed # "none" =>
        /\ pc \in {"unwind", "returned"}
        /\ exitPath = "none"
        /\ ticks = 0
        /\ numSamples = 0
        /\ in \in {<<>>, ZeroBuffer}
        /\ \A k \in 1..(MaxTicks + 1) :
                Op("read", k) \notin failed /\ Op("append", k) \notin failed
        /\ watcher.pc = "off"
        /\ pc = "returned" =>
            /\ f.exists => (TimesRun("closeFile") = 1 /\ ~f.open)
            /\ lib # "uninit" =>
                /\ TimesRun("terminate") = 1
                /\ Op("terminate", 0) \notin failed => lib = "terminated"
            /\ stream # "none" =>
                /\ TimesRun("closeStream") = 1
                /\ Op("closeStream", 0) \notin failed => stream = "closed"

\* stream.Start failed: the stream was closed, the library terminated, the file closed
C7_Witness ==
    /\ pc = "returned"
    /\ setupFailed = "start"
    /\ stream = "closed"
    /\ lib = "terminated"
    /\ f.exists
    /\ ~f.open

----------------------------------------------------------------------------
\* the calls the size-patch defer issued, in order
PatchCalls == [i \in 1..Len(patchLog) |-> <<patchLog[i].op, patchLog[i].off>>]

AllPatchCalls ==
    << <<"seek", TotalBytesOffset>>, <<"write", TotalBytesOffset>>,
       <<"seek", NumSamplesOffset>>, <<"write", NumSamplesOffset>>,
       <<"seek", SoundSizeOffset>>, <<"write", SoundSizeOffset>> >>

(* C8: a failing teardown step never prevents a later one: whatever fails   *)
(* among stream stop, stream close, terminate, the three seeks and the      *)
(* three patch writes, all six patch calls are still issued and the file    *)
(* close, like every later teardown step, is still attempted.               *)
C8_TeardownStepsIndependent ==
    pc = "returned" =>
        /\ setupFailed = "none" => teardown = FullTeardown
        /\ TimesRun("patch") = 1 => PatchCalls = AllPatchCalls
        /\ f.exists => teardown[Len(teardown)] = "closeFile"

\* the stream stop and the first seek failed, and everything after them still ran
C8_Witness ==
    /\ pc = "returned"
    /\ Op("stopStream", 0) \in failed
    /\ Op("seek", TotalBytesOffset) \in failed
    /\ teardown = FullTeardown
    /\ PatchCalls = AllPatchCalls

----------------------------------------------------------------------------
(* C9: the size-patch step reports success only when all three seeks and    *)
(* all three writes succeeded; if any one of them fails it reports failure. *)
C9_PatchReportsAnyFailure ==
    patchReport = "success" => PatchClean

----------------------------------------------------------------------------
(* C10 as stated: end-of-input of the trigger stream stops the capture      *)
(* loop: once the watcher has reached end-of-input without having read a    *)
(* line, the main loop starts no further capture tick.                      *)
C10_EndOfInputStops ==
    [][(watcher.pc = "exit" /\ watcher.scanned = "none" /\ pc = "poll")
           => pc' # "read"]_vars

(* C10 amended: end-of-input alone does not stop the capture loop.  The     *)
(* watcher that reaches end-of-input exits without sending on done; a value *)
(* enters done only for a scanned line (a final unterminated one included); *)
(* and the loop is left only at a poll, by taking a value from done or a    *)
(* signal from stop.                                                        *)
C10_OnlyLineOrSignalStops ==
    [][/\ (watcher.pc # "exit" /\ watcher'.pc = "exit")
            => (done' = done /\ stop' = stop /\ pc' = pc)
       /\ done' > done => (watcher.pc = "send" /\ watcher.scanned # "none")
       /\ (pc \in LoopPcs /\ pc' \notin LoopPcs) =>
            /\ pc = "poll"
            /\ \/ done > 0 /\ done' = done - 1 /\ exitPath' = "done"
               \/ stop > 0 /\ stop' = stop - 1 /\ exitPath' = "signal"]_vars

\* the watcher ended at end-of-input with nothing read, and capture goes on
C10_Witness ==
    /\ watcher.pc = "exit"
    /\ watcher.scanned = "none"
    /\ done = 0
    /\ stop = 0
    /\ pc = "count"
    /\ ticks >= 1

----------------------------------------------------------------------------
(* Long sessions.  The counter of a long recording is out of reach of a     *)
(* tick-by-tick exploration, so the teardown is also explored from the      *)
(* states in which the recording loop of such a session is left: LongStep   *)
(* ticks are 64 * LongStep samples, about three minutes of audio.  Of the   *)
(* file only the header region is kept in these states; the size-patch      *)
(* step addresses it by absolute offsets and reads nothing of the payload.  *)

\* ticks between two explored session lengths
LongStep == 131072

\* number of session lengths explored
LongSteps == 120

\* the file after the three chunk writers
HeaderOnly == WriteAll(WriteAll(WriteAll(Created, FormChunkWrites, 0, 0),
                                CommonChunkWrites, 0, 0), SoundChunkWrites, 0, 0)

\* the recording loop of a session of k * LongStep ticks is left by a stop line
InitLong ==
    \E k \in 0..LongSteps :
        /\ pc = OnDone
        /\ f = HeaderOnly
        /\ err = "nil"
        /\ ticks = k * LongStep
        /\ numSamples = FramesPerBuffer * (k * LongStep)
        /\ in = DeviceBuffer(k * LongStep)
        /\ defers = <<"closeFile", "patch", "terminate", "closeStream", "stopStream">>
        /\ lib = "initialized"
        /\ stream = "started"
        /\ done = 0
        /\ stop = 0
        /\ watcher = [pc |-> "scan", scanned |-> "lines"]
        /\ exitPath = "done"
        /\ setupFailed = "none"
        /\ teardown = <<>>
        /\ failed = {}
        /\ patchLog = <<>>
        /\ patchReport = "none"

NextLong ==
    \/ DeferStreamStop
    \/ DeferStreamClose
    \/ DeferTerminate
    \/ DeferPatch
    \/ DeferFileClose
    \/ Returned

SpecLong == InitLong /\ [][NextLong]_vars

\* field = k * n in the integers, stated without forming the product
IsProduct(field, k, n) == field \div k = n /\ field % k = 0

(* C11: for every value numSamples can reach, however long the session,     *)
(* the patched fields read back as signed 32-bit big-endian integers equal  *)
(* 50*numSamples, numSamples and 4*numSamples + 8: the conversion to a      *)
(* 32-bit field never wraps or changes sign.                                *)
C11_FieldsNeverWrap ==
    (pc = "returned" /\ TimesRun("patch") = 1 /\ PatchClean) =>
        /\ IsProduct(TotalBytesField, 50, numSamples)
        /\ NumSamplesField = numSamples
        /\ SoundSizeField >= 8
        /\ IsProduct(SoundSizeField - 8, 4, numSamples)

----------------------------------------------------------------------------
\* the last tick up to t whose stream.Read succeeded, 0 when there is none
LastGoodRead(t) ==
    LET good == {j \in 1..t : Op("read", j) \notin failed}
    IN  IF good = {} THEN 0 ELSE CHOOSE j \in good : \A k \in good : k <= j

\* what the frame buffer held when tick t appended it: the samples of the last
\* successful read, a failed read leaving the buffer as it was
BufferAt(t) ==
    IF LastGoodRead(t) = 0 THEN ZeroBuffer ELSE DeviceBuffer(LastGoodRead(t))

\* no append of the session returned an error
AppendsClean == \A k \in 1..(ticks + 1) : Op("append", k) \notin failed

(* C12: after the three chunk writes the file is 54 bytes long, with zero   *)
(* placeholders at offsets 4, 22 and 42 (the offsets the size-patch step    *)
(* seeks to), chunk size 18 at 16, channel count 1 at 20, bits per sample   *)
(* 32 at 26, the sample-rate bytes at 28..37 and zero offset and block      *)
(* fields at 46 and 50; and while every append succeeds, tick k (from 0)    *)
(* occupies bytes [54 + 256*k, 54 + 256*(k+1)) in arrival order, each       *)
(* sample a big-endian 4-byte integer.                                      *)
C12_FileLayout ==
    /\ pc = "patchDefer" => (Len(f.bytes) = 54 /\ f.pos = 54)
    /\ (HeaderWritten /\ TimesRun("patch") = 0) =>
        /\ SubSeq(f.bytes, 1, 4) = FORM
        /\ ReadBE32(f.bytes, TotalBytesOffset) = 0
        /\ SubSeq(f.bytes, 9, 12) = AIFF
        /\ SubSeq(f.bytes, 13, 16) = COMM
        /\ ReadBE32(f.bytes, 16) = 18
        /\ SubSeq(f.bytes, 21, 22) = <<0, 1>>
        /\ ReadBE32(f.bytes, NumSamplesOffset) = 0
        /\ SubSeq(f.bytes, 27, 28) = <<0, 32>>
        /\ SubSeq(f.bytes, 29, 38) = SampleRateBytes
        /\ SubSeq(f.bytes, 39, 42) = SSND
        /\ ReadBE32(f.bytes, SoundSizeOffset) = 0
        /\ ReadBE32(f.bytes, 46) = 0
        /\ ReadBE32(f.bytes, 50) = 0
    /\ (HeaderWritten /\ TimesRun("patch") = 0 /\ AppendsClean) =>
        /\ Len(f.bytes) = 54 + 256 * (IF pc = "count" THEN ticks + 1 ELSE ticks)
        /\ \A k \in 0..(ticks - 1) : \A i \in 0..(FramesPerBuffer - 1) :
                ReadBE32(f.bytes, 54 + 256 * k + 4 * i) = BufferAt(k + 1)[i + 1]

\* three ticks appended without error, the second from a stale buffer
C12_Witness ==
    /\ pc = "poll"
    /\ ticks = 3
    /\ failed = {Op("read", 2)}
    /\ Len(f.bytes) = 54 + 256 * 3
    /\ ReadBE32(f.bytes, 54 + 256 + 4) = DeviceBuffer(1)[2]
    /\ ReadBE32(f.bytes, 54 + 512 + 4) = DeviceBuffer(3)[2]

----------------------------------------------------------------------------
(* C13: stop is checked once per tick, before the read.  When a stop line   *)
(* or a signal is pending at a poll (or both), no tick is performed at that *)
(* poll and the loop is left; a tick that has begun completes its read, its *)
(* append and its counter increment before the next poll; and a pending     *)
(* notification stays pending until a poll honours it.  Hence at most the   *)
(* tick in progress completes after a notification becomes pending.         *)
C13_StopCheckedOncePerTick ==
    [][/\ (pc = "poll" /\ (done > 0 \/ stop > 0) /\ pc' # pc) =>
            /\ pc' \notin LoopPcs
            /\ ticks' = ticks
            /\ numSamples' = numSamples
            /\ f' = f
            /\ in' = in
       /\ (pc = "read" /\ pc' # pc) => pc' = "append"
       /\ (pc = "append" /\ pc' # pc) => pc' = "count"
       /\ (pc = "count" /\ pc' # pc) =>
            /\ pc' = "poll"
            /\ ticks' = ticks + 1
            /\ numSamples' = numSamples + FramesPerBuffer
       /\ (pc \in LoopPcs /\ (done' < done \/ stop' < stop)) =>
            (pc = "poll" /\ pc' \notin LoopPcs)]_vars

\* a stop line and a signal are both pending at the poll that follows two ticks
C13_Witness ==
    /\ pc = "poll"
    /\ ticks = 2
    /\ done = 1
    /\ stop = 1

----------------------------------------------------------------------------
(* C14: the size-patch step runs after the last sample append and before    *)
(* the file is closed: once its first seek is issued no sample is appended  *)
(* and the device stream is not read, and no patch seek or write is issued  *)
(* on the closed file.                                                      *)
C14_PatchAfterAppendsBeforeClose ==
    [][/\ patchLog' # patchLog =>
            (f.open /\ patchLog = <<>> /\ pc \notin LoopPcs /\ pc' \notin LoopPcs)
       /\ patchLog # <<>> =>
            /\ pc' \notin LoopPcs
            /\ ticks' = ticks
            /\ in' = in
            /\ f'.bytes = f.bytes
            /\ patchLog' = patchLog
       /\ (f.exists /\ ~f.open) => (f' = f /\ patchLog' = patchLog)]_vars

\* one tick was appended, then the sizes were patched, then the file was closed
C14_Witness ==
    /\ teardown = FullTeardown
    /\ ticks = 1
    /\ Len(patchLog) = 6
    /\ PatchClean
    /\ NumSamplesField = 64
    /\ ~f.open

----------------------------------------------------------------------------
(* Scheduling: the main goroutine keeps running as long as it has a step to *)
(* take (every device read and file operation returns), and the watcher's   *)
(* send completes once the done channel has room.  Input lines, end-of-     *)
(* input and signals may or may not come.                                   *)
\* the deferred size patch returns, whatever its calls returned
PatchReturns == Runs("patch") /\ Ran("patch")

\* a step of the main goroutine, the size patch seen only as its return; every
\* such step moves pc or pops a deferred function
MainProgress ==
    \/ CreateFile \/ WriteFormChunk \/ WriteCommonChunk \/ WriteSoundChunk
    \/ RegisterPatch \/ Initialize \/ OpenStream \/ StartStream
    \/ PollDone \/ PollStop \/ PollDefault
    \/ ReadStream \/ AppendSamples \/ CountSamples
    \/ DeferStreamStop \/ DeferStreamClose \/ DeferTerminate
    \/ PatchReturns
    \/ DeferFileClose \/ Returned

FairSpec == Spec /\ WF_<<pc, defers>>(MainProgress) /\ WF_vars(WatcherSend)

(* C15: if a complete input line is delivered while the session is          *)
(* capturing, the session eventually reaches DONE with the full teardown    *)
(* completed, whatever further lines are typed and however signals          *)
(* interleave; the watcher blocked on the full done channel blocks neither  *)
(* the main loop nor the teardown.                                          *)
C15_LineLeadsToDone ==
    (watcher.pc = "send" /\ pc \in LoopPcs)
        ~> (pc = "returned" /\ teardown = FullTeardown)

\* the teardown is under way while the watcher is blocked sending a further line
C15_Witness ==
    /\ watcher.pc = "send"
    /\ done = ChanCap
    /\ exitPath = "done"
    /\ pc = "unwind"
    /\ teardown = <<"stopStream", "closeStream", "terminate", "patch">>

----------------------------------------------------------------------------
\* a step of the watcher goroutine or the delivery of a signal: the goroutine
\* moves once started, or a notification is added to a channel
EnvStep ==
    \/ watcher.pc # "off" /\ watcher' # watcher
    \/ done' > done
    \/ stop' > stop

(* C16: in every interleaving, watcher and signal steps change nothing but  *)
(* the contents of the done and stop channels (and the watcher's own        *)
(* position): the frame buffer, numSamples, the output file, the device     *)
(* stream and the main goroutine's position are modified by main steps      *)
(* only; each channel holds at most one pending notification.               *)
C16_OnlyMainMutatesAudio ==
    [][/\ EnvStep => UNCHANGED <<pc, f, err, numSamples, in, defers, lib, stream,
                                 ticks, exitPath, teardown, patchLog, patchReport>>
       /\ <<in, numSamples, f, stream>>' # <<in, numSamples, f, stream>> => ~EnvStep
       /\ done' \in {0, 1} /\ stop' \in {0, 1}]_vars

\* in the middle of a tick both channels are full and the watcher holds a
\* further line
C16_Witness ==
    /\ pc = "append"
    /\ ticks = 2
    /\ done = 1
    /\ stop = 1
    /\ watcher.pc = "send"

----------------------------------------------------------------------------
\* the size-patch defer applied once more to the file as it stands, with the
\* same numSamples, every seek and write succeeding
PatchedAgain ==
    RunPatch(f, 1, [i \in 1..3 |-> TRUE], [i \in 1..3 |-> 4],
             PatchValues(numSamples)).file

(* C17: applying the size-patch step a second time with the same numSamples *)
(* (all seeks and writes succeeding) leaves the file byte-for-byte          *)
(* identical to the file after the first application.                       *)
C17_PatchIdempotent ==
    (Len(patchLog) = 6 /\ PatchClean) => PatchedAgain.bytes = f.bytes

\* a session of two ticks whose patch succeeded
C17_Witness ==
    /\ pc = "returned"
    /\ Len(patchLog) = 6
    /\ PatchClean
    /\ NumSamplesField = 2 * FramesPerBuffer
    /\ PatchedAgain.pos = SoundSizeOffset + 4

----------------------------------------------------------------------------
\* the file offsets (from 0) of the bytes of the three 4-byte size fields
SizeFieldBytes ==
    UNION {{PatchOffsets[i] + k : k \in 0..3} : i \in 1..Len(PatchOffsets)}

(* C18: for every outcome of its seeks and writes (a failed seek followed   *)
(* by the write that is still issued included), the size-patch step changes *)
(* only the bytes at [4,8), [22,26) and [42,46): every other byte - chunk   *)
(* markers, fixed header fields, the sample payload from offset 54 on - is  *)
(* unchanged and the file length is unchanged.                              *)
C18_PatchTouchesOnlySizeFields ==
    [][patchLog' # patchLog =>
          /\ Len(f'.bytes) = Len(f.bytes)
          /\ \A i \in 1..Len(f.bytes) :
                (i - 1) \notin SizeFieldBytes => f'.bytes[i] = f.bytes[i]]_vars

----------------------------------------------------------------------------
\* the number of bytes the file holds after its 54 header bytes
PayloadBytes == Len(f.bytes) - Len(HeaderOnly.bytes)

(* C19: in every finalized session (the patch ran and its seeks and writes  *)
(* succeeded) the sample payload after offset 54 holds exactly 4*numSamples *)
(* bytes, the patched sound-chunk size equals payload bytes + 8 and the     *)
(* patched sample count equals payload bytes / 4, also when some per-tick   *)
(* appends failed or wrote only part of a buffer.                           *)
C19_DeclaredPayloadMatches ==
    (pc = "returned" /\ Len(patchLog) = 6 /\ PatchClean) =>
        /\ PayloadBytes = 4 * numSamples
        /\ SoundSizeField = PayloadBytes + 8
        /\ 4 * NumSamplesField = PayloadBytes

----------------------------------------------------------------------------
\* the positions of the main goroutine between the signal registration of
\* line 45 and the first select of the recording loop
SetupPcs == {"create", "form", "common", "sound", "patchDefer", "init", "open", "start"}

(* C20: a termination signal delivered during setup (after the registration *)
(* of line 45, before the first poll of the loop) is not lost: no step of   *)
(* the setup takes it out of the single-slot stop channel, and when the     *)
(* setup succeeds the first poll leaves the loop with zero capture ticks    *)
(* performed, numSamples = 0 and no sample appended; nothing after the loop *)
(* changes these counts.                                                    *)
C20_SetupSignalStaysPending ==
    [][/\ (pc \in SetupPcs /\ stop > 0) => stop' > 0
       /\ (pc = "poll" /\ ticks = 0 /\ stop > 0 /\ pc' # pc) =>
             /\ pc' \notin LoopPcs
             /\ ticks' = 0
             /\ numSamples' = 0
             /\ f'.bytes = f.bytes
       /\ (pc \notin SetupPcs /\ pc \notin LoopPcs) =>
             (ticks' = ticks /\ numSamples' = numSamples)]_vars

\* a session stopped by a signal at its first poll, before the watcher saw any
\* input, has returned
C20_Witness ==
    /\ pc = "returned"
    /\ exitPath = "signal"
    /\ setupFailed = "none"
    /\ watcher = [pc |-> "scan", scanned |-> "none"]
    /\ ticks = 0
    /\ numSamples = 0
    /\ PayloadBytes = 0

====
